---- MODULE Spec2Model ----
(***************************************************************************)
(* Model of the terminal Minesweeper game in src/src/main.rs: the MSGame   *)
(* struct (board, cursor, mine and flag counters) and its methods new,     *)
(* count_neighbors, process_key, check_board, open_tile, open_mines,       *)
(* flag_tile and move_cursor.                                              *)
(***************************************************************************)
EXTENDS Integers, Sequences, FiniteSets, TLC

\* ------------------------------------------------------------------ bounds

\* Largest board width, height and cell count that MSGame::new is given.
MaxWidth == 4
MaxHeight == 4
MaxCells == 4
\* Largest mine count that MSGame::new is given (may exceed the cell count).
MaxMines == 2
\* The player keeps at most this many flags placed at a time.
MaxFlags == 2
\* Largest width and height, cell count and mine count of the boards on
\* which count_neighbors is recounted for every mine placement.
BuildMaxSide == 3
BuildMaxCells == 9
BuildMaxMines == 10
\* Width in bits of the modelled usize (wrapping arithmetic is modulo 2^UsizeBits).
UsizeBits == 8

VARIABLES
    width,      \* MSGame.width
    height,     \* MSGame.height
    cursor_x,   \* MSGame.cursor_x
    cursor_y,   \* MSGame.cursor_y
    board,      \* MSGame.board: Vec<Tile>, indexed from 0
    mines,      \* MSGame.mines
    flags,      \* MSGame.flags
    arg_mines,  \* the `mines` argument MSGame::new was called with
    lastOp,     \* name of the method called last
    lastArg,    \* its argument (a Direction, a Key, or "-")
    action,     \* the TurnResult the last call returned ("None" if it returned none)
    prev,       \* board, cursor and flags as they were before the last call
    frame,      \* the status line the last call of draw printed, if it was draw
    pc,         \* "open_tile" while a call of open_tile is inside its loop,
                \* "panic" once a call has panicked (the process is gone)
    fill_queue, \* open_tile's local `queue` during that call
    fill_i,     \* open_tile's local `i` during that call
    opened      \* the positions that call has turned Open so far, in order

vars == <<width, height, cursor_x, cursor_y, board, mines, flags,
          arg_mines, lastOp, lastArg, action, prev,
          frame, pc, fill_queue, fill_i, opened>>

\* ------------------------------------------------------------------ types

\* NEIGHBOR_OFFSETS with its last entry mistyped as a second (1, -1)
NEIGHBOR_OFFSETS_typo ==
    << <<-1, -1>>, <<0, -1>>, <<1, -1>>, <<-1, 0>>,
       <<1, 0>>, <<-1, 1>>, <<0, 1>>, <<1, -1>> >>

NEIGHBOR_OFFSETS ==
    << <<-1, -1>>, <<0, -1>>, <<1, -1>>, <<-1, 0>>,
       <<1, 0>>, <<-1, 1>>, <<0, 1>>, <<1, 1>> >>

TurnResult == {"Continue", "Lose", "Win", "Quit"}

Direction == {"Up", "Down", "Left", "Right"}

\* The keys console::Key can deliver; "Other" stands for every unbound key.
Key == {"ArrowUp", "ArrowLeft", "ArrowDown", "ArrowRight",
        "f", "space", "Escape", "q", "Other"}

TileVis == {"Hidden", "Flag", "Open"}

Mine == [kind |-> "Mine", count |-> 0]

Safe(count) == [kind |-> "Safe", count |-> count]

\* Tile::new(mine)
TileNew(mine) ==
    [contents |-> IF mine THEN Mine ELSE Safe(0), visibility |-> "Hidden"]

\* ------------------------------------------------------------- arithmetic

USIZE == 2 ^ UsizeBits

\* `d as usize` for an i32 d
AsUsize(d) == d % USIZE

wrapping_add(a, b) == (a + b) % USIZE

wrapping_sub(a, b) == (a - b) % USIZE

saturating_sub(a, b) == IF a >= b THEN a - b ELSE 0

Min(a, b) == IF a <= b THEN a ELSE b

\* ---------------------------------------------------------------- access

valid_pos(w, h, x, y) == x < w /\ y < h

index_of(w, x, y) == x + y * w

\* what a caller of get holds after `panic!("invalid get pos")`: nothing; the
\* marker lets the caller's model see that the call did not return
InvalidGetPos ==
    [contents |-> [kind |-> "Panic", count |-> 0], visibility |-> "invalid get pos"]

\* get and get_mut
get(b, w, h, x, y) ==
    IF ~valid_pos(w, h, x, y) THEN InvalidGetPos ELSE b[index_of(w, x, y)]

\* ------------------------------------------------------- count_neighbors

\* the positions the offset loops of count_neighbors and open_tile hand to
\* get_mut and get for the centre (x, y): the wrapped sums that pass the
\* valid_pos test, each with the offset it came from
neighbor_gets(w, h, x, y) ==
    {[offset |-> NEIGHBOR_OFFSETS[k],
      pos |-> <<wrapping_add(x, AsUsize(NEIGHBOR_OFFSETS[k][1])),
                wrapping_add(y, AsUsize(NEIGHBOR_OFFSETS[k][2]))>>] :
        k \in {n \in 1 .. Len(NEIGHBOR_OFFSETS) :
                  valid_pos(w, h, wrapping_add(x, AsUsize(NEIGHBOR_OFFSETS[n][1])),
                                  wrapping_add(y, AsUsize(NEIGHBOR_OFFSETS[n][2])))}}

\* the inner `for (dx, dy) in NEIGHBOR_OFFSETS` loop, from offset k on.
\* `count + 1` is u8 arithmetic: the board is computed with the sum wrapped
\* and `overflow` tells whether a sum exceeded 255, on which a build with
\* overflow checks panics.
RECURSIVE count_offsets(_, _, _, _, _, _)
count_offsets(b, w, h, center_x, center_y, k) ==
    IF k > Len(NEIGHBOR_OFFSETS) THEN [board |-> b, overflow |-> FALSE]
    ELSE LET x == wrapping_add(center_x, AsUsize(NEIGHBOR_OFFSETS[k][1]))
             y == wrapping_add(center_y, AsUsize(NEIGHBOR_OFFSETS[k][2]))
         IN  IF ~valid_pos(w, h, x, y)
             THEN count_offsets(b, w, h, center_x, center_y, k + 1)
             ELSE LET i == index_of(w, x, y)
                      tile == get(b, w, h, x, y)
                      nb == IF tile.contents.kind = "Safe"
                            THEN [b EXCEPT ![i].contents =
                                      Safe((tile.contents.count + 1) % 256)]
                            ELSE b
                      r == count_offsets(nb, w, h, center_x, center_y, k + 1)
                  IN  [board |-> r.board,
                       overflow |-> r.overflow
                                    \/ (tile.contents.kind = "Safe"
                                        /\ tile.contents.count + 1 > 255)]

\* the `for center_y` / `for center_x` loops, from centre number c on
\* (c = center_x + center_y * width, the order the loops visit them)
RECURSIVE count_centers(_, _, _, _)
count_centers(b, w, h, c) ==
    IF c >= w * h THEN [board |-> b, overflow |-> FALSE]
    ELSE LET center_x == c % w
             center_y == c \div w
             tile == get(b, w, h, center_x, center_y)
         IN  IF tile.contents = Mine
             THEN LET r1 == count_offsets(b, w, h, center_x, center_y, 1)
                      r2 == count_centers(r1.board, w, h, c + 1)
                  IN  [board |-> r2.board, overflow |-> r1.overflow \/ r2.overflow]
             ELSE count_centers(b, w, h, c + 1)

\* the outcomes of count_neighbors on board b: the board with the counts
\* added, or, when a count overflowed, either a panic (build with overflow
\* checks; the board is then never seen again) or the board with that count
\* wrapped (build without them)
count_neighbors(b, w, h) ==
    LET r == count_centers(b, w, h, 0)
    IN  IF r.overflow
        THEN {[board |-> b, panicked |-> TRUE],
              [board |-> r.board, panicked |-> FALSE]}
        ELSE {[board |-> r.board, panicked |-> FALSE]}

\* ------------------------------------------------------------ open_mines

\* open_mines that opens the Hidden mines only, leaving flags in place
open_mines_hidden_only(b) ==
    [i \in DOMAIN b |->
        IF b[i].contents = Mine /\ b[i].visibility = "Hidden"
        THEN [b[i] EXCEPT !.visibility = "Open"]
        ELSE b[i]]

open_mines(b) ==
    [i \in DOMAIN b |->
        IF b[i].contents = Mine
        THEN [b[i] EXCEPT !.visibility = "Open"]
        ELSE b[i]]

\* ----------------------------------------------------------- check_board

\* the scan `for y` / `for x`, from tile number pos on, with the running
\* value of `explored`; yields the TurnResult and the board left behind
RECURSIVE check_scan(_, _, _, _, _)
check_scan(b, w, h, pos, explored) ==
    IF pos >= w * h
    THEN [result |-> IF explored THEN "Win" ELSE "Continue", board |-> b]
    ELSE LET tile == get(b, w, h, pos % w, pos \div w)
         IN  IF tile.visibility = "Open"
             THEN IF tile.contents = Mine
                  THEN [result |-> "Lose", board |-> open_mines(b)]
                  ELSE check_scan(b, w, h, pos + 1, explored)
             ELSE IF tile.visibility = "Hidden"
             THEN check_scan(b, w, h, pos + 1,
                             IF tile.contents.kind = "Safe" THEN FALSE
                             ELSE explored)
             ELSE check_scan(b, w, h, pos + 1, explored)

\* check_board that tests for Win before it looks for an Open mine
check_board_win_first(b, w, h) ==
    IF \A pos \in 0 .. w * h - 1 :
          ~(b[pos].visibility = "Hidden" /\ b[pos].contents.kind = "Safe")
    THEN [result |-> "Win", board |-> b]
    ELSE check_scan(b, w, h, 0, TRUE)

\* check_board that also opens the mines when the game is won
check_board_reveal_on_win(b, w, h) ==
    LET r == check_scan(b, w, h, 0, TRUE)
    IN  IF r.result = "Win" THEN [result |-> "Win", board |-> open_mines(b)]
        ELSE r

check_board(b, w, h) == check_scan(b, w, h, 0, TRUE)

\* ------------------------------------------------------------- open_tile

\* open_single_tile that changes a copy of the tile and not the board
open_single_tile_on_copy(b, w, x, y) == b

open_single_tile(b, w, x, y) ==
    LET i == index_of(w, x, y)
    IN  IF b[i].visibility = "Hidden"
        THEN [b EXCEPT ![i].visibility = "Open"]
        ELSE b

\* push_neighbors that steps to the four orthogonal neighbours only
RECURSIVE push_neighbors_orthogonal(_, _, _, _, _, _, _)
push_neighbors_orthogonal(b, w, h, x, y, queue, k) ==
    IF k > Len(NEIGHBOR_OFFSETS) THEN queue
    ELSE LET target_x == wrapping_add(x, AsUsize(NEIGHBOR_OFFSETS[k][1]))
             target_y == wrapping_add(y, AsUsize(NEIGHBOR_OFFSETS[k][2]))
         IN  IF NEIGHBOR_OFFSETS[k][1] # 0 /\ NEIGHBOR_OFFSETS[k][2] # 0
             THEN push_neighbors_orthogonal(b, w, h, x, y, queue, k + 1)
             ELSE IF ~valid_pos(w, h, target_x, target_y)
             THEN push_neighbors_orthogonal(b, w, h, x, y, queue, k + 1)
             ELSE IF get(b, w, h, target_x, target_y).visibility = "Open"
             THEN push_neighbors_orthogonal(b, w, h, x, y, queue, k + 1)
             ELSE push_neighbors_orthogonal(b, w, h, x, y,
                                 Append(queue, <<target_x, target_y>>), k + 1)

\* push_neighbors without the valid_pos test: a target off the grid is pushed
RECURSIVE push_neighbors_unchecked(_, _, _, _, _, _, _)
push_neighbors_unchecked(b, w, h, x, y, queue, k) ==
    IF k > Len(NEIGHBOR_OFFSETS) THEN queue
    ELSE LET target_x == wrapping_add(x, AsUsize(NEIGHBOR_OFFSETS[k][1]))
             target_y == wrapping_add(y, AsUsize(NEIGHBOR_OFFSETS[k][2]))
         IN  IF /\ valid_pos(w, h, target_x, target_y)
                /\ get(b, w, h, target_x, target_y).visibility = "Open"
             THEN push_neighbors_unchecked(b, w, h, x, y, queue, k + 1)
             ELSE push_neighbors_unchecked(b, w, h, x, y,
                                 Append(queue, <<target_x, target_y>>), k + 1)

\* the inner `for (dx, dy) in NEIGHBOR_OFFSETS` loop of open_tile
RECURSIVE push_neighbors(_, _, _, _, _, _, _)
push_neighbors(b, w, h, x, y, queue, k) ==
    IF k > Len(NEIGHBOR_OFFSETS) THEN queue
    ELSE LET target_x == wrapping_add(x, AsUsize(NEIGHBOR_OFFSETS[k][1]))
             target_y == wrapping_add(y, AsUsize(NEIGHBOR_OFFSETS[k][2]))
         IN  IF ~valid_pos(w, h, target_x, target_y)
             THEN push_neighbors(b, w, h, x, y, queue, k + 1)
             ELSE IF get(b, w, h, target_x, target_y).visibility = "Open"
             THEN push_neighbors(b, w, h, x, y, queue, k + 1)
             ELSE push_neighbors(b, w, h, x, y,
                                 Append(queue, <<target_x, target_y>>), k + 1)

\* open_loop that opens every dequeued tile that is not Open yet, Flag or not
RECURSIVE open_loop_ignores_flags(_, _, _, _, _)
open_loop_ignores_flags(b, w, h, queue, i) ==
    IF ~(i < Len(queue)) THEN [board |-> b, queue |-> queue, panicked |-> FALSE]
    ELSE LET x == queue[i + 1][1]
             y == queue[i + 1][2]
             tile == get(b, w, h, x, y)
         IN  IF tile = InvalidGetPos
             THEN [board |-> b, queue |-> queue, panicked |-> TRUE]
             ELSE IF tile.visibility # "Open"
             THEN LET b1 == [b EXCEPT ![index_of(w, x, y)].visibility = "Open"]
                      q1 == IF tile.contents = Safe(0)
                            THEN push_neighbors(b1, w, h, x, y, queue, 1)
                            ELSE queue
                  IN  open_loop_ignores_flags(b1, w, h, q1, i + 1)
             ELSE open_loop_ignores_flags(b, w, h, queue, i + 1)

\* open_loop without the test for a zero count: every Safe tile it opens
\* pushes its neighbours
RECURSIVE open_loop_floods_nonzero(_, _, _, _, _)
open_loop_floods_nonzero(b, w, h, queue, i) ==
    IF ~(i < Len(queue)) THEN [board |-> b, queue |-> queue, panicked |-> FALSE]
    ELSE LET x == queue[i + 1][1]
             y == queue[i + 1][2]
             tile == get(b, w, h, x, y)
         IN  IF tile = InvalidGetPos
             THEN [board |-> b, queue |-> queue, panicked |-> TRUE]
             ELSE IF tile.visibility = "Hidden"
             THEN LET b1 == open_single_tile(b, w, x, y)
                      q1 == IF tile.contents.kind = "Safe"
                            THEN push_neighbors(b1, w, h, x, y, queue, 1)
                            ELSE queue
                  IN  open_loop_floods_nonzero(b1, w, h, q1, i + 1)
             ELSE open_loop_floods_nonzero(b, w, h, queue, i + 1)

\* open_loop in which a dequeued Safe(0) tile that is already Open enqueues
\* its neighbours as well
RECURSIVE open_loop_refloods(_, _, _, _, _)
open_loop_refloods(b, w, h, queue, i) ==
    IF ~(i < Len(queue)) THEN [board |-> b, queue |-> queue, panicked |-> FALSE]
    ELSE LET x == queue[i + 1][1]
             y == queue[i + 1][2]
             tile == get(b, w, h, x, y)
         IN  IF tile = InvalidGetPos
             THEN [board |-> b, queue |-> queue, panicked |-> TRUE]
             ELSE IF tile.visibility # "Flag"
             THEN LET b1 == open_single_tile(b, w, x, y)
                      q1 == IF tile.contents = Safe(0)
                            THEN push_neighbors(b1, w, h, x, y, queue, 1)
                            ELSE queue
                  IN  open_loop_refloods(b1, w, h, q1, i + 1)
             ELSE open_loop_refloods(b, w, h, queue, i + 1)

\* the `while i < queue.len()` loop; queue[i] of the code is queue[i + 1]
\* here; `panicked` tells that get panicked on a queue entry off the grid
RECURSIVE open_loop(_, _, _, _, _)
open_loop(b, w, h, queue, i) ==
    IF ~(i < Len(queue)) THEN [board |-> b, queue |-> queue, panicked |-> FALSE]
    ELSE LET x == queue[i + 1][1]
             y == queue[i + 1][2]
             tile == get(b, w, h, x, y)
         IN  IF tile = InvalidGetPos
             THEN [board |-> b, queue |-> queue, panicked |-> TRUE]
             ELSE IF tile.visibility = "Hidden"
             THEN LET b1 == open_single_tile(b, w, x, y)
                      q1 == IF tile.contents = Safe(0)
                            THEN push_neighbors(b1, w, h, x, y, queue, 1)
                            ELSE queue
                  IN  open_loop(b1, w, h, q1, i + 1)
             ELSE open_loop(b, w, h, queue, i + 1)

open_tile(b, w, h, cx, cy) == open_loop(b, w, h, << <<cx, cy>> >>, 0)

\* ------------------------------------------------------------- flag_tile

\* flag_tile that also counts a flag off when the tile is Open
\* the outcomes of `self.flags -= 1` and `self.flags += 1` (d = -1, 1) on
\* board b1, the tile being written already: within usize the new counter;
\* beyond it a panic that leaves the counter as it was (build with overflow
\* checks) or the wrapped counter (build without them)
flags_step(b1, fl, d) ==
    IF fl + d < 0 \/ fl + d >= USIZE
    THEN {[board |-> b1, flags |-> fl, panicked |-> TRUE],
          [board |-> b1, flags |-> (fl + d) % USIZE, panicked |-> FALSE]}
    ELSE {[board |-> b1, flags |-> fl + d, panicked |-> FALSE]}

\* flag_tile that also counts a flag off when the tile is Open
flag_tile_open_decrements(b, w, cx, cy, fl) ==
    LET i == index_of(w, cx, cy)
    IN  IF b[i].visibility = "Hidden"
        THEN flags_step([b EXCEPT ![i].visibility = "Flag"], fl, 1)
        ELSE flags_step([b EXCEPT ![i].visibility =
                             IF @ = "Flag" THEN "Hidden" ELSE @], fl, -1)

\* the outcomes of the call: the board and the flag counter after it, and
\* whether it panicked
flag_tile(b, w, cx, cy, fl) ==
    LET i == index_of(w, cx, cy)
    IN  IF b[i].visibility = "Flag"
        THEN flags_step([b EXCEPT ![i].visibility = "Hidden"], fl, -1)
        ELSE IF b[i].visibility = "Hidden"
        THEN flags_step([b EXCEPT ![i].visibility = "Flag"], fl, 1)
        ELSE {[board |-> b, flags |-> fl, panicked |-> FALSE]}

\* ----------------------------------------------------------- move_cursor

\* move_cursor that stops at the top and left edges instead of wrapping
move_cursor_clamp(direction, w, h, cx, cy) ==
    IF direction = "Up" THEN <<cx, Min(saturating_sub(cy, 1), h - 1)>>
    ELSE IF direction = "Down" THEN <<cx, (cy + 1) % h>>
    ELSE IF direction = "Left" THEN <<Min(saturating_sub(cx, 1), w - 1), cy>>
    ELSE <<(cx + 1) % w, cy>>

\* move_cursor without the remainder on Down and Right
move_cursor_no_rem(direction, w, h, cx, cy) ==
    IF direction = "Up" THEN <<cx, Min(wrapping_sub(cy, 1), h - 1)>>
    ELSE IF direction = "Down" THEN <<cx, wrapping_add(cy, 1)>>
    ELSE IF direction = "Left" THEN <<Min(wrapping_sub(cx, 1), w - 1), cy>>
    ELSE <<wrapping_add(cx, 1), cy>>

\* yields the cursor <<x, y>> after the call
move_cursor(direction, w, h, cx, cy) ==
    IF direction = "Up" THEN <<cx, Min(wrapping_sub(cy, 1), h - 1)>>
    ELSE IF direction = "Down" THEN <<cx, (cy + 1) % h>>
    ELSE IF direction = "Left" THEN <<Min(wrapping_sub(cx, 1), w - 1), cy>>
    ELSE <<(cx + 1) % w, cy>>

\* ------------------------------------------------------------------ draw

NoFrame == [drawn |-> FALSE, panicked |-> FALSE,
            mines |-> 0, flags |-> 0, remaining |-> 0]

\* the status lines `draw` can print for the counters m and f. The
\* subtraction `self.mines - self.flags` is on usize: when f > m it aborts
\* with an overflow panic in a build with overflow checks and wraps in a
\* build without them.
draw(m, f) ==
    IF f > m
    THEN {[drawn |-> TRUE, panicked |-> TRUE,
           mines |-> m, flags |-> f, remaining |-> 0],
          [drawn |-> TRUE, panicked |-> FALSE,
           mines |-> m, flags |-> f, remaining |-> wrapping_sub(m, f)]}
    ELSE {[drawn |-> TRUE, panicked |-> FALSE,
           mines |-> m, flags |-> f, remaining |-> m - f]}

\* ------------------------------------------------------------------- new

\* the boards `board.shuffle` can leave: every arrangement of
\* empty_tiles Safe(0) tiles and m Mine tiles
ShuffledBoards(w, h, m) ==
    LET size == w * h
        empty_tiles == saturating_sub(size, m)
        len == empty_tiles + m
    IN  { [i \in 0 .. len - 1 |-> TileNew(i \in S)] :
            S \in { T \in SUBSET (0 .. len - 1) : Cardinality(T) = m } }

Snapshot == [board |-> board, cursor_x |-> cursor_x, cursor_y |-> cursor_y,
             flags |-> flags]

\* the states MSGame::new(w, h, m) can return, for w, h, m within the bounds
\* (it returns only if count_neighbors did)
InitWith(maxWidth, maxHeight, maxCells, maxMines) ==
    /\ width \in 1 .. maxWidth
    /\ height \in 1 .. maxHeight
    /\ width * height <= maxCells
    /\ arg_mines \in 0 .. maxMines
    /\ mines = arg_mines
    /\ \E shuffled \in ShuffledBoards(width, height, arg_mines) :
          \E r \in count_neighbors(shuffled, width, height) :
              /\ ~r.panicked
              /\ board = r.board
    /\ cursor_x = 0
    /\ cursor_y = 0
    /\ flags = 0
    /\ lastOp = "new"
    /\ lastArg = "-"
    /\ action = "None"
    /\ prev = [board |-> board, cursor_x |-> 0, cursor_y |-> 0, flags |-> 0]
    /\ frame = NoFrame
    /\ pc = "idle"
    /\ fill_queue = << >>
    /\ fill_i = 0
    /\ opened = << >>

Init == InitWith(MaxWidth, MaxHeight, MaxCells, MaxMines)

\* --------------------------------------------------------------- actions

\* the player does not place a flag beyond MaxFlags
FlagAllowed ==
    get(board, width, height, cursor_x, cursor_y).visibility = "Hidden"
        => flags < MaxFlags

\* the fields no method writes
Dims == UNCHANGED <<width, height, mines, arg_mines>>

\* what a call made outside open_tile's loop leaves alone; no call is made
\* once one has panicked
Fixed ==
    /\ pc = "idle"
    /\ ~frame.panicked
    /\ Dims
    /\ UNCHANGED <<fill_queue, fill_i, opened>>

\* the call returns, or panics and takes the process down
Returns(panicked) == pc' = IF panicked THEN "panic" ELSE "idle"

\* the call prints nothing
NoDraw == frame' = NoFrame

MoveCursor(direction) ==
    LET c == move_cursor(direction, width, height, cursor_x, cursor_y)
    IN  /\ cursor_x' = c[1]
        /\ cursor_y' = c[2]
        /\ lastOp' = "move_cursor"
        /\ lastArg' = direction
        /\ prev' = Snapshot
        /\ action' = "None"
        /\ UNCHANGED <<board, flags>>
        /\ Returns(FALSE)
        /\ NoDraw
        /\ Fixed

FlagTile ==
    /\ FlagAllowed
    /\ \E r \in flag_tile(board, width, cursor_x, cursor_y, flags) :
          /\ board' = r.board
          /\ flags' = r.flags
          /\ Returns(r.panicked)
    /\ lastOp' = "flag_tile"
    /\ lastArg' = "-"
    /\ prev' = Snapshot
    /\ action' = "None"
    /\ UNCHANGED <<cursor_x, cursor_y>>
    /\ NoDraw
    /\ Fixed

OpenTile ==
    /\ LET r == open_tile(board, width, height, cursor_x, cursor_y)
       IN  /\ board' = r.board
           /\ Returns(r.panicked)
    /\ lastOp' = "open_tile"
    /\ lastArg' = "-"
    /\ prev' = Snapshot
    /\ action' = "None"
    /\ UNCHANGED <<cursor_x, cursor_y, flags>>
    /\ NoDraw
    /\ Fixed

CheckBoard ==
    LET r == check_board(board, width, height)
    IN  /\ board' = r.board
        /\ action' = r.result
        /\ lastOp' = "check_board"
        /\ lastArg' = "-"
        /\ prev' = Snapshot
        /\ UNCHANGED <<cursor_x, cursor_y, flags>>
        /\ Returns(FALSE)
        /\ NoDraw
        /\ Fixed

\* the outcome of a bound method that left board b, cursor (cx, cy) and
\* counter fl
Effect(b, cx, cy, fl, panicked) ==
    [board |-> b, cursor_x |-> cx, cursor_y |-> cy, flags |-> fl,
     panicked |-> panicked]

\* the key bindings with ArrowUp bound to flag_tile
KeyEffect_up_flags(key) ==
    IF key = "ArrowLeft" \/ key = "ArrowDown" \/ key = "ArrowRight"
    THEN LET d == IF key = "ArrowLeft" THEN "Left"
                  ELSE IF key = "ArrowDown" THEN "Down" ELSE "Right"
             c == move_cursor(d, width, height, cursor_x, cursor_y)
         IN  {Effect(board, c[1], c[2], flags, FALSE)}
    ELSE IF key = "f" \/ key = "ArrowUp"
    THEN {Effect(r.board, cursor_x, cursor_y, r.flags, r.panicked) :
             r \in flag_tile(board, width, cursor_x, cursor_y, flags)}
    ELSE IF key = "space"
    THEN LET r == open_tile(board, width, height, cursor_x, cursor_y)
         IN  {Effect(r.board, cursor_x, cursor_y, flags, r.panicked)}
    ELSE {Effect(board, cursor_x, cursor_y, flags, FALSE)}

\* process_key: the outcomes of the method the key is bound to, before
\* check_board runs
KeyEffect(key) ==
    IF key = "ArrowUp" \/ key = "ArrowLeft" \/ key = "ArrowDown" \/ key = "ArrowRight"
    THEN LET d == IF key = "ArrowUp" THEN "Up"
                  ELSE IF key = "ArrowLeft" THEN "Left"
                  ELSE IF key = "ArrowDown" THEN "Down" ELSE "Right"
             c == move_cursor(d, width, height, cursor_x, cursor_y)
         IN  {Effect(board, c[1], c[2], flags, FALSE)}
    ELSE IF key = "f"
    THEN {Effect(r.board, cursor_x, cursor_y, r.flags, r.panicked) :
             r \in flag_tile(board, width, cursor_x, cursor_y, flags)}
    ELSE IF key = "space"
    THEN LET r == open_tile(board, width, height, cursor_x, cursor_y)
         IN  {Effect(r.board, cursor_x, cursor_y, flags, r.panicked)}
    ELSE {Effect(board, cursor_x, cursor_y, flags, FALSE)}

\* the state process_key leaves when the bound method had outcome e and
\* check_board, reached only if that method returned, had outcome r
KeyOutcome(e, r, result) ==
    /\ board' = IF e.panicked THEN e.board ELSE r.board
    /\ action' = IF e.panicked THEN "None" ELSE result
    /\ cursor_x' = e.cursor_x
    /\ cursor_y' = e.cursor_y
    /\ flags' = e.flags
    /\ Returns(e.panicked)

\* process_key whose Quit arm does not return early: the result is Quit but
\* check_board still runs
ProcessKey_evaluates_on_quit(key) ==
    /\ key = "f" => FlagAllowed
    /\ lastOp' = "process_key"
    /\ lastArg' = key
    /\ prev' = Snapshot
    /\ Fixed
    /\ \E e \in KeyEffect(key) :
          LET r == check_board(e.board, width, height)
          IN  KeyOutcome(e, r, IF key = "Escape" \/ key = "q" THEN "Quit"
                               ELSE r.result)

ProcessKey(key) ==
    /\ key = "f" => FlagAllowed
    /\ lastOp' = "process_key"
    /\ lastArg' = key
    /\ prev' = Snapshot
    /\ Fixed
    /\ IF key = "Escape" \/ key = "q"
       THEN /\ action' = "Quit"
            /\ UNCHANGED <<board, cursor_x, cursor_y, flags>>
            /\ Returns(FALSE)
       ELSE \E e \in KeyEffect(key) :
               LET r == check_board(e.board, width, height)
               IN  KeyOutcome(e, r, r.result)

\* draw: prints the grid and the status line; changes nothing
Draw ==
    /\ \E f \in draw(mines, flags) : frame' = f
    /\ lastOp' = "draw"
    /\ lastArg' = "-"
    /\ prev' = Snapshot
    /\ action' = "None"
    /\ UNCHANGED <<board, cursor_x, cursor_y, flags>>
    /\ Returns(FALSE)
    /\ Fixed

\* Any method of MSGame may be called next.
Next ==
    \/ \E direction \in Direction : MoveCursor(direction)
    \/ FlagTile
    \/ OpenTile
    \/ CheckBoard
    \/ Draw

Spec == Init /\ [][Next]_vars

QuitKeys == {"Escape", "q"}

\* process_key called, with a Quit key or with a key of the catch-all arm, on
\* the board any sequence of the other methods has produced (boards main's
\* loop never hands it included).
KeyNext ==
    /\ lastOp # "process_key"
    /\ \/ \E direction \in Direction : MoveCursor(direction)
       \/ FlagTile
       \/ OpenTile
       \/ \E key \in QuitKeys \cup {"Other"} : ProcessKey(key) /\ NoDraw

KeySpec == Init /\ [][KeyNext]_vars

\* `game.draw(&stdout)` ahead of the loop: the frame of the fresh board
FirstDraw ==
    /\ lastOp = "new"
    /\ Draw

\* one turn of main's loop: while the result is Continue (and nothing has
\* panicked) a key is read and processed and, process_key having returned,
\* the frame is drawn
Turn ==
    /\ lastOp # "new"
    /\ action \in {"None", "Continue"}
    /\ \E key \in Key :
          /\ ProcessKey(key)
          /\ IF pc' = "panic" THEN NoDraw
             ELSE \E f \in draw(mines', flags') : frame' = f

GameNext ==
    \/ FirstDraw
    \/ Turn

GameSpec == Init /\ [][GameNext]_vars

\* open_tile taken one loop iteration at a time.

\* `let mut queue = vec![(self.cursor_x, self.cursor_y)]; let mut i = 0;`
FillStart ==
    /\ pc = "idle"
    /\ ~frame.panicked
    /\ pc' = "open_tile"
    /\ fill_queue' = << <<cursor_x, cursor_y>> >>
    /\ fill_i' = 0
    /\ opened' = << >>
    /\ lastOp' = "open_tile"
    /\ lastArg' = "-"
    /\ prev' = Snapshot
    /\ action' = "None"
    /\ UNCHANGED <<board, cursor_x, cursor_y, flags>>
    /\ NoDraw
    /\ Dims

\* the loop iteration without the test for Safe(0): every tile it opens
\* pushes its neighbours
FillStep_floods_nonzero ==
    /\ pc = "open_tile"
    /\ fill_i < Len(fill_queue)
    /\ LET x == fill_queue[fill_i + 1][1]
           y == fill_queue[fill_i + 1][2]
           tile == get(board, width, height, x, y)
       IN  IF tile = InvalidGetPos
           THEN /\ pc' = "panic"
                /\ UNCHANGED <<board, opened, fill_queue, fill_i>>
           ELSE /\ IF tile.visibility = "Hidden"
                   THEN LET b1 == open_single_tile(board, width, x, y)
                        IN  /\ board' = b1
                            /\ opened' = Append(opened, <<x, y>>)
                            /\ fill_queue' = push_neighbors(b1, width, height, x, y, fill_queue, 1)
                   ELSE UNCHANGED <<board, opened, fill_queue>>
                /\ fill_i' = fill_i + 1
                /\ UNCHANGED pc
    /\ UNCHANGED <<cursor_x, cursor_y, flags, lastOp, lastArg, prev, action, frame>>
    /\ Dims

\* one iteration of `while i < queue.len()`
FillStep ==
    /\ pc = "open_tile"
    /\ fill_i < Len(fill_queue)
    /\ LET x == fill_queue[fill_i + 1][1]
           y == fill_queue[fill_i + 1][2]
           tile == get(board, width, height, x, y)
       IN  IF tile = InvalidGetPos
           THEN /\ pc' = "panic"
                /\ UNCHANGED <<board, opened, fill_queue, fill_i>>
           ELSE /\ IF tile.visibility = "Hidden"
                   THEN LET b1 == open_single_tile(board, width, x, y)
                        IN  /\ board' = b1
                            /\ opened' = Append(opened, <<x, y>>)
                            /\ fill_queue' = IF tile.contents = Safe(0)
                                        THEN push_neighbors(b1, width, height, x, y, fill_queue, 1)
                                        ELSE fill_queue
                   ELSE UNCHANGED <<board, opened, fill_queue>>
                /\ fill_i' = fill_i + 1
                /\ UNCHANGED pc
    /\ UNCHANGED <<cursor_x, cursor_y, flags, lastOp, lastArg, prev, action, frame>>
    /\ Dims

\* the loop ends and open_tile returns, dropping its locals
FillReturn ==
    /\ pc = "open_tile"
    /\ ~(fill_i < Len(fill_queue))
    /\ pc' = "idle"
    /\ fill_queue' = << >>
    /\ fill_i' = 0
    /\ opened' = << >>
    /\ UNCHANGED <<board, cursor_x, cursor_y, flags, lastOp, lastArg, prev, action, frame>>
    /\ Dims

FillNext ==
    \/ \E direction \in Direction : MoveCursor(direction)
    \/ FlagTile
    \/ CheckBoard
    \/ FillStart
    \/ FillStep
    \/ FillReturn

FillSpec == Init /\ [][FillNext]_vars

\* open_tile runs to its return once called: nothing else is scheduled
\* while it is inside its loop (the program has a single thread).
FairFillSpec == FillSpec /\ WF_vars(FillStep) /\ WF_vars(FillReturn)

\* ------------------------------------------------------ property helpers

\* the tile numbers of the width x height grid
Grid == 0 .. width * height - 1

XOf(i) == i % width

YOf(i) == i \div width

Abs(n) == IF n < 0 THEN -n ELSE n

\* tiles i and j of the grid are 8-adjacent
Adjacent(i, j) ==
    /\ i # j
    /\ Abs(XOf(i) - XOf(j)) <= 1
    /\ Abs(YOf(i) - YOf(j)) <= 1

IsMine(b, i) == b[i].contents.kind = "Mine"

IsSafe(b, i) == b[i].contents.kind = "Safe"

Vis(b, i) == b[i].visibility

\* the tile under the cursor before the last call
PrevCursor == index_of(width, prev.cursor_x, prev.cursor_y)

AllMinesOpen(b) == \A i \in DOMAIN b : IsMine(b, i) => Vis(b, i) = "Open"

SomeMineOpen(b) == \E i \in Grid : IsMine(b, i) /\ Vis(b, i) = "Open"

AllSafeOpen(b) == \A i \in Grid : IsSafe(b, i) => Vis(b, i) = "Open"

\* --------------------------------------------------------------- claims

\* C1: evaluate() returns Win if and only if no Mine tile is Open and every
\* Safe tile is Open; a Safe tile that is Flagged or Hidden prevents Win.
C1_WinIffAllSafeOpen ==
    lastOp = "check_board" =>
        (action = "Win" <=>
            (~SomeMineOpen(prev.board) /\ AllSafeOpen(prev.board)))

\* C2: when the reveal key is processed with the cursor on a Hidden Mine
\* tile, the evaluation that follows returns Lose and leaves every Mine tile
\* Open, the Flagged and the Hidden ones included.
C2_RevealMineLoses ==
    (/\ lastOp = "process_key"
     /\ lastArg = "space"
     /\ IsMine(prev.board, PrevCursor)
     /\ Vis(prev.board, PrevCursor) = "Hidden")
        => (action = "Lose" /\ AllMinesOpen(board))

C2_Witness ==
    /\ lastOp = "process_key"
    /\ lastArg = "space"
    /\ IsMine(prev.board, PrevCursor)
    /\ Vis(prev.board, PrevCursor) = "Hidden"
    /\ \E i \in Grid : IsMine(prev.board, i) /\ Vis(prev.board, i) = "Flag"
    /\ action = "Lose"

\* C3: Lose takes precedence over Win: evaluate() on a board with an Open
\* Mine returns Lose, wherever the mine lies in scan order and even when no
\* Safe tile is left Hidden.
C3_LoseBeforeWin ==
    (lastOp = "check_board" /\ SomeMineOpen(prev.board)) => action = "Lose"

C3_Witness ==
    /\ lastOp = "check_board"
    /\ action = "Lose"
    /\ AllSafeOpen(prev.board)
    /\ \E i, j \in Grid :
          /\ i < j
          /\ IsSafe(prev.board, i)
          /\ IsMine(prev.board, j)
          /\ Vis(prev.board, j) = "Open"
          /\ \A k \in Grid : k < j => ~(IsMine(prev.board, k) /\ Vis(prev.board, k) = "Open")


\* the tiles the last call turned Open
Opened == {i \in Grid : Vis(prev.board, i) # "Open" /\ Vis(board, i) = "Open"}

\* C4: reveal() never opens a Flagged tile: with the cursor on a Flagged or
\* Open tile it changes nothing, and every tile Flagged before the call is
\* Flagged after it, also next to the zero-count region being filled.
C4_RevealKeepsFlags ==
    lastOp = "open_tile" =>
        /\ \A i \in DOMAIN prev.board :
              Vis(prev.board, i) = "Flag" => Vis(board, i) = "Flag"
        /\ Vis(prev.board, PrevCursor) # "Hidden" =>
              /\ board = prev.board
              /\ cursor_x = prev.cursor_x
              /\ cursor_y = prev.cursor_y
              /\ flags = prev.flags

C4_Witness ==
    /\ lastOp = "open_tile"
    /\ Vis(prev.board, PrevCursor) = "Hidden"
    /\ \E i, j \in Grid :
          /\ Adjacent(i, j)
          /\ i \in Opened
          /\ board[i].contents = Safe(0)
          /\ Vis(prev.board, j) = "Flag"
          /\ Vis(board, j) = "Flag"

\* the tiles reached from the tiles R by 8-neighbour steps that leave only
\* tiles of P
RECURSIVE Closure(_, _)
Closure(R, P) ==
    LET N == R \cup {j \in Grid : \E i \in R \cap P : Adjacent(i, j)}
    IN  IF N = R THEN R ELSE Closure(N, P)

ZeroTiles == {i \in Grid : prev.board[i].contents = Safe(0)}

HiddenZeroTiles == {i \in ZeroTiles : Vis(prev.board, i) = "Hidden"}

MineFree == \A i \in Grid : IsSafe(board, i)

\* reveal() was the last call, made with the cursor on a Hidden Safe tile
RevealedSafe ==
    /\ lastOp = "open_tile"
    /\ IsSafe(prev.board, PrevCursor)
    /\ Vis(prev.board, PrevCursor) = "Hidden"

\* C5 as stated: reveal() on a Hidden Safe(0) tile opens exactly the Hidden
\* tiles reachable from the cursor through Safe(0) tiles, whatever the flags;
\* on a Hidden Safe(n>0) tile it opens that tile only; on a mine-free board
\* it opens the entire grid.
C5_FloodThroughZeros ==
    RevealedSafe =>
        /\ prev.board[PrevCursor].contents = Safe(0) =>
              Opened = {i \in Closure({PrevCursor}, ZeroTiles) :
                            Vis(prev.board, i) = "Hidden"}
        /\ prev.board[PrevCursor].contents # Safe(0) => Opened = {PrevCursor}
        /\ MineFree => \A i \in Grid : Vis(board, i) = "Open"

\* C5 amended: reveal() on a Hidden Safe(0) tile opens exactly the Hidden
\* tiles reachable from the cursor through tiles that are Safe(0) and were
\* Hidden before the call (a Flagged or Open tile stops the fill); on a
\* Hidden Safe(n>0) tile it opens that tile only; on a mine-free board whose
\* tiles are all Hidden it opens the entire grid.
C5_FloodThroughHiddenZeros ==
    RevealedSafe =>
        /\ prev.board[PrevCursor].contents = Safe(0) =>
              Opened = {i \in Closure({PrevCursor}, HiddenZeroTiles) :
                            Vis(prev.board, i) = "Hidden"}
        /\ prev.board[PrevCursor].contents # Safe(0) => Opened = {PrevCursor}
        /\ (MineFree /\ \A i \in Grid : Vis(prev.board, i) = "Hidden") =>
              \A i \in Grid : Vis(board, i) = "Open"

\* a fill of several tiles that leaves Hidden a tile lying behind a Safe(0)
\* tile that was not Hidden
C5_Witness ==
    /\ RevealedSafe
    /\ prev.board[PrevCursor].contents = Safe(0)
    /\ Cardinality(Opened) >= 2
    /\ \E j \in Closure({PrevCursor}, ZeroTiles) :
          /\ Vis(prev.board, j) = "Hidden"
          /\ Vis(board, j) = "Hidden"

\* the number of mines among the in-bounds 8-neighbours of tile i
MinesAround(b, i) == Cardinality({j \in Grid : Adjacent(i, j) /\ IsMine(b, j)})

\* the mines among the in-bounds 8-adjacent neighbours of tile i on a
\* w x h board b, recounted tile by tile
MinesAroundIn(b, w, h, i) ==
    Cardinality({j \in 0 .. w * h - 1 :
                    /\ j # i
                    /\ Abs((i % w) - (j % w)) <= 1
                    /\ Abs((i \div w) - (j \div w)) <= 1
                    /\ b[j].contents.kind = "Mine"})

\* the boards MSGame::new builds for the dimensions and mine counts within
\* the Build bounds, each with the shuffled board it was derived from
BuiltBoards ==
    UNION { UNION { { [w |-> d[1], h |-> d[2], shuffled |-> sh, built |-> r] :
                        r \in count_neighbors(sh, d[1], d[2]) } :
                    sh \in ShuffledBoards(d[1], d[2], d[3]) } :
            d \in { e \in (1 .. BuildMaxSide) \X (1 .. BuildMaxSide)
                              \X (0 .. BuildMaxMines) :
                      e[1] * e[2] <= BuildMaxCells } }

\* count_neighbors returns for every such placement, leaves every mine a
\* mine and gives every Safe tile of the grid the recounted number
CountsExactOnBuiltBoards ==
    \A c \in BuiltBoards :
        /\ ~c.built.panicked
        /\ DOMAIN c.built.board = DOMAIN c.shuffled
        /\ \A i \in DOMAIN c.shuffled :
              c.built.board[i].contents.kind = c.shuffled[i].contents.kind
        /\ \A i \in 0 .. c.w * c.h - 1 :
              c.built.board[i].contents.kind = "Safe" =>
                  c.built.board[i].contents.count
                      = MinesAroundIn(c.built.board, c.w, c.h, i)

\* C6: on every board new builds (every mine placement, here up to
\* BuildMaxSide x BuildMaxSide) every Safe tile's count is the number of its
\* in-bounds 8-adjacent neighbours that are mines; and in every state any
\* sequence of calls reaches the counts are still exact and the last call
\* (move, flag, reveal, evaluate, draw) has changed no tile's contents.
C6_CountsExact ==
    /\ CountsExactOnBuiltBoards
    /\ \A i \in Grid :
          IsSafe(board, i) => board[i].contents.count = MinesAround(board, i)
    /\ DOMAIN board = DOMAIN prev.board
    /\ \A i \in DOMAIN board : board[i].contents = prev.board[i].contents

\* check_board has returned Lose and open_mines has opened a flagged mine
\* next to a tile that counts two mines, after a reveal; and among the built
\* boards is one whose centre tile counts eight mines
C6_Witness ==
    /\ lastOp = "check_board"
    /\ action = "Lose"
    /\ \E i \in Grid : Vis(prev.board, i) = "Flag" /\ Vis(board, i) = "Open"
    /\ \E i \in Grid : board[i].contents = Safe(2) /\ Vis(board, i) = "Open"
    /\ \E c \in BuiltBoards :
          c.w = BuildMaxSide /\ c.h = BuildMaxSide
          /\ c.built.board[c.w + 1].contents = Safe(8)

\* C7: the board holds width x height tiles, min(mineCount, width x height)
\* of them mines, and the stored mine count is that clamped value.
C7_MinesClamped ==
    LET size == width * height
        clamped == Min(arg_mines, size)
    IN  /\ Cardinality(DOMAIN board) = size
        /\ Cardinality({i \in DOMAIN board : IsMine(board, i)}) = clamped
        /\ mines = clamped

\* C8: each move is a modular step on its own axis and changes nothing on
\* the other; Left then Right, and Up then Down, return to the start.
C8_ModularWrap ==
    /\ (lastOp = "move_cursor" /\ lastArg = "Left") =>
          (cursor_x = (prev.cursor_x - 1) % width /\ cursor_y = prev.cursor_y)
    /\ (lastOp = "move_cursor" /\ lastArg = "Right") =>
          (cursor_x = (prev.cursor_x + 1) % width /\ cursor_y = prev.cursor_y)
    /\ (lastOp = "move_cursor" /\ lastArg = "Up") =>
          (cursor_y = (prev.cursor_y - 1) % height /\ cursor_x = prev.cursor_x)
    /\ (lastOp = "move_cursor" /\ lastArg = "Down") =>
          (cursor_y = (prev.cursor_y + 1) % height /\ cursor_x = prev.cursor_x)
    /\ LET l == move_cursor("Left", width, height, cursor_x, cursor_y)
       IN  move_cursor("Right", width, height, l[1], l[2]) = <<cursor_x, cursor_y>>
    /\ LET u == move_cursor("Up", width, height, cursor_x, cursor_y)
       IN  move_cursor("Down", width, height, u[1], u[2]) = <<cursor_x, cursor_y>>

\* Left from column 0 of a board at least three wide
C8_Witness ==
    /\ lastOp = "move_cursor"
    /\ lastArg = "Left"
    /\ width >= 3
    /\ prev.cursor_x = 0
    /\ cursor_x = width - 1

\* C9: the cursor is always inside the grid.
C9_CursorInBounds ==
    /\ 0 <= cursor_x
    /\ cursor_x < width
    /\ 0 <= cursor_y
    /\ cursor_y < height

\* Down from the bottom row, and Right from the last column
C9_Witness ==
    /\ lastOp = "move_cursor"
    /\ \/ lastArg = "Down" /\ height >= 2 /\ prev.cursor_y = height - 1
       \/ lastArg = "Right" /\ width >= 2 /\ prev.cursor_x = width - 1

\* C10: evaluate() called again right after evaluate() returns the same
\* result, also after a Lose that opened the mines; a call that returns Win
\* or Continue leaves the board unchanged.
C10_EvaluateIdempotent ==
    lastOp = "check_board" =>
        /\ check_board(board, width, height).result = action
        /\ action \in {"Win", "Continue"} => board = prev.board

\* a Lose whose call opened further mines
C10_Witness ==
    /\ lastOp = "check_board"
    /\ action = "Lose"
    /\ board # prev.board

FlagTiles(b) == {i \in DOMAIN b : Vis(b, i) = "Flag"}

\* C11: flag_tile at the cursor turns a Hidden tile into a Flag tile and adds
\* one to flags, turns a Flag tile into a Hidden tile and takes one from
\* flags, and leaves an Open tile and flags alone; no other tile and not the
\* cursor changes; the counter is at least 1 whenever it is decremented, also
\* after a Lose evaluation has opened flagged mines.
C11_FlagToggleExact ==
    lastOp = "flag_tile" =>
        /\ cursor_x = prev.cursor_x
        /\ cursor_y = prev.cursor_y
        /\ \A j \in DOMAIN board \ {PrevCursor} : board[j] = prev.board[j]
        /\ board[PrevCursor].contents = prev.board[PrevCursor].contents
        /\ Vis(prev.board, PrevCursor) = "Hidden" =>
               /\ Vis(board, PrevCursor) = "Flag"
               /\ flags = prev.flags + 1
        /\ Vis(prev.board, PrevCursor) = "Flag" =>
               /\ Vis(board, PrevCursor) = "Hidden"
               /\ prev.flags >= 1
               /\ flags = prev.flags - 1
        /\ Vis(prev.board, PrevCursor) = "Open" =>
               /\ Vis(board, PrevCursor) = "Open"
               /\ flags = prev.flags
        /\ pc # "panic"

\* a flag is taken off after a Lose evaluation opened a flagged mine
C11_Witness ==
    /\ lastOp = "flag_tile"
    /\ Vis(prev.board, PrevCursor) = "Flag"
    /\ Vis(board, PrevCursor) = "Hidden"
    /\ SomeMineOpen(board)
    /\ flags > Cardinality(FlagTiles(board))

\* C12: whenever draw is called, also with flags > mines, it prints the
\* frame without aborting and the status line's Remaining value is the
\* signed difference mines - flags.
C12_RemainingSigned ==
    lastOp = "draw" =>
        /\ ~frame.panicked
        /\ frame.remaining = mines - flags

\* C13: process_key with Escape or 'q' returns Quit and leaves the cursor,
\* every tile and flags as they were, on every board, also on one where
\* check_board would have returned Win or Lose (and, on Lose, opened mines).
C13_QuitBypassesEvaluate ==
    (lastOp = "process_key" /\ lastArg \in QuitKeys) =>
        /\ action = "Quit"
        /\ board = prev.board
        /\ cursor_x = prev.cursor_x
        /\ cursor_y = prev.cursor_y
        /\ flags = prev.flags

\* Quit on a board where check_board would return Lose and open a mine that
\* is still Hidden
C13_Witness ==
    /\ lastOp = "process_key"
    /\ lastArg = "q"
    /\ action = "Quit"
    /\ check_board(board, width, height).result = "Lose"
    /\ check_board(board, width, height).board # board

ArrowKeys == {"ArrowUp", "ArrowLeft", "ArrowDown", "ArrowRight"}

\* what C14 says of a processed key: a movement key returns Continue and
\* leaves every tile and flags alone, an unrecognised key changes nothing
MovementIsQuiet ==
    /\ lastArg \in ArrowKeys =>
           /\ action = "Continue"
           /\ board = prev.board
           /\ flags = prev.flags
    /\ lastArg = "Other" =>
           /\ board = prev.board
           /\ flags = prev.flags
           /\ cursor_x = prev.cursor_x
           /\ cursor_y = prev.cursor_y

\* C14 (as stated): on every board main's loop hands to process_key, the
\* freshly constructed one included, a movement key changes only the cursor
\* and returns Continue, and an unrecognised key changes nothing.
C14_MovementNeverEnds ==
    lastOp = "process_key" => MovementIsQuiet

\* C14 (amended): the same, on every board that has a Safe tile; on a board
\* without a Safe tile a movement key or an unrecognised key changes no tile
\* and not flags (the unrecognised key not the cursor either) and returns
\* Win.
C14_MovementNeverEndsWithSafeTile ==
    /\ (lastOp = "process_key" /\ \E i \in Grid : IsSafe(board, i)) =>
           MovementIsQuiet
    /\ (/\ lastOp = "process_key"
        /\ \A i \in Grid : ~IsSafe(board, i)
        /\ lastArg \in ArrowKeys \cup {"Other"}) =>
           /\ action = "Win"
           /\ board = prev.board
           /\ flags = prev.flags
           /\ lastArg = "Other" =>
                  <<cursor_x, cursor_y>> = <<prev.cursor_x, prev.cursor_y>>

\* a movement key moved the cursor over a board with a flag, an Open tile
\* and a Hidden Safe tile, and the game goes on
C14_Witness ==
    /\ lastOp = "process_key"
    /\ lastArg \in ArrowKeys
    /\ action = "Continue"
    /\ <<cursor_x, cursor_y>> # <<prev.cursor_x, prev.cursor_y>>
    /\ \E i \in Grid : Vis(board, i) = "Flag"
    /\ \E i \in Grid : Vis(board, i) = "Open"
    /\ \E i \in Grid : IsSafe(board, i) /\ Vis(board, i) = "Hidden"

\* C15: open_tile with the cursor on an Open tile leaves every tile, flags
\* and the cursor unchanged, and a second open_tile at the same cursor
\* changes nothing the first one left.
C15_RevealOpenIsNoOp ==
    lastOp = "open_tile" =>
        /\ Vis(prev.board, PrevCursor) = "Open" =>
               /\ board = prev.board
               /\ flags = prev.flags
               /\ cursor_x = prev.cursor_x
               /\ cursor_y = prev.cursor_y
        /\ open_tile(board, width, height, cursor_x, cursor_y).board = board

\* open_tile was called on an Open Safe(0) tile that has a Hidden neighbour
C15_Witness ==
    /\ lastOp = "open_tile"
    /\ Vis(prev.board, PrevCursor) = "Open"
    /\ prev.board[PrevCursor].contents = Safe(0)
    /\ \E j \in Grid : Adjacent(PrevCursor, j) /\ Vis(board, j) = "Hidden"

\* position p is 8-adjacent to position q
AdjacentPos(p, q) ==
    /\ p # q
    /\ Abs(p[1] - q[1]) <= 1
    /\ Abs(p[2] - q[2]) <= 1

\* no position was turned Open twice by the running call, and every queue
\* entry after the first was pushed by a Safe(0) tile the call itself opened
OpenedOnce ==
    /\ \A a, c \in 1 .. Len(opened) : a # c => opened[a] # opened[c]
    /\ \A a \in 1 .. Len(opened) :
          Vis(prev.board, index_of(width, opened[a][1], opened[a][2])) = "Hidden"
    /\ \A k \in 2 .. Len(fill_queue) :
          \E a \in 1 .. Len(opened) :
              /\ get(board, width, height, opened[a][1], opened[a][2]).contents = Safe(0)
              /\ AdjacentPos(fill_queue[k], opened[a])

\* C16: every call of open_tile returns (its loop reaches i = queue.len()),
\* and during one call each tile is turned from Hidden to Open at most once,
\* only tiles that were Hidden when dequeued pushing their neighbours.
C16_RevealTerminates ==
    /\ [](pc = "open_tile" => OpenedOnce)
    /\ (pc = "open_tile") ~> (pc = "idle")

\* the loop is at its end after opening three tiles, with a position in the
\* queue twice
C16_Witness ==
    /\ pc = "open_tile"
    /\ fill_i = Len(fill_queue)
    /\ Len(opened) >= 3
    /\ \E a, c \in 1 .. Len(fill_queue) : a # c /\ fill_queue[a] = fill_queue[c]

\* the Safe(0) tiles the running call has opened so far
OpenedZeros ==
    {a \in 1 .. Len(opened) :
        get(board, width, height, opened[a][1], opened[a][2]).contents = Safe(0)}

\* C17 (as stated): during a call of open_tile the queue never holds more
\* than width * height entries.
C17_QueueWithinGrid ==
    pc = "open_tile" => Len(fill_queue) <= width * height

\* C17 (amended): during a call of open_tile the queue holds at most
\* 1 + 8 * k entries, k the number of Safe(0) tiles the call has opened so
\* far, hence never more than 1 + 8 * width * height.
C17_QueueWithinEightPerZero ==
    pc = "open_tile" =>
        /\ Len(fill_queue) <= 1 + 8 * Cardinality(OpenedZeros)
        /\ Cardinality(OpenedZeros) <= width * height
        /\ Len(fill_queue) <= 1 + 8 * width * height

\* the loop is at its end with more queue entries than the grid has tiles
C17_Witness ==
    /\ pc = "open_tile"
    /\ fill_i = Len(fill_queue)
    /\ Len(fill_queue) > width * height
    /\ Cardinality(OpenedZeros) >= 2

\* position p is on the grid and its index is within the board
InBounds(p) ==
    /\ 0 <= p[1] /\ p[1] < width
    /\ 0 <= p[2] /\ p[2] < height
    /\ (p[1] + p[2] * width) \in DOMAIN board

\* C18: every position handed to get or get_mut is on the grid: the entries
\* of open_tile's queue (read at the head of each iteration, pushed after
\* get on the target), the cursor (the first entry, and flag_tile's index),
\* the positions the row and column loops of count_neighbors, check_board
\* and draw visit, and the wrapped neighbours that pass valid_pos, which are
\* the true neighbours of their centre, edge and corner centres included.
C18_GetInBounds ==
    /\ pc # "panic"
    /\ \A k \in 1 .. Len(fill_queue) : InBounds(fill_queue[k])
    /\ InBounds(<<cursor_x, cursor_y>>)
    /\ \A y \in 0 .. height - 1 : \A x \in 0 .. width - 1 :
          /\ valid_pos(width, height, x, y)
          /\ InBounds(<<x, y>>)
          /\ \A t \in neighbor_gets(width, height, x, y) :
                /\ InBounds(t.pos)
                /\ t.pos = <<x + t.offset[1], y + t.offset[2]>>

\* the fill pushed the neighbours of a corner tile of a board with at least
\* two rows and two columns and has dequeued them all
C18_Witness ==
    /\ pc = "open_tile"
    /\ fill_i = Len(fill_queue)
    /\ width >= 2
    /\ height >= 2
    /\ Len(opened) >= 2
    /\ opened[1] \in {<<0, 0>>, <<width - 1, height - 1>>}
    /\ Len(fill_queue) >= 4

\* C19: in every state of the game, the one after a Lose evaluation
\* included, flags is the number of Flag tiles, and so is the Flags figure
\* of the frame just drawn.
C19_FlagCountMatches ==
    /\ flags = Cardinality(FlagTiles(board))
    /\ (frame.drawn /\ ~frame.panicked) =>
           frame.flags = Cardinality(FlagTiles(board))

CursorIndex == index_of(width, cursor_x, cursor_y)

\* the Mine tiles open_tile would turn Open if it were called now
MinesOpenedByReveal ==
    {i \in Grid : /\ IsMine(board, i)
                  /\ Vis(board, i) # "Open"
                  /\ Vis(open_tile(board, width, height, cursor_x, cursor_y).board, i) = "Open"}

\* C20: open_tile turns a Mine tile Open only if that tile is under the
\* cursor and Hidden (the fill never reaches a mine), a key returns Lose only
\* if it was the open key on a Hidden mine, and while main's loop is still
\* reading keys no Mine tile is Open.
C20_FloodNeverDetonates ==
    /\ MinesOpenedByReveal \subseteq {CursorIndex}
    /\ MinesOpenedByReveal # {} => Vis(board, CursorIndex) = "Hidden"
    /\ action = "Lose" =>
           /\ lastArg = "space"
           /\ IsMine(prev.board, PrevCursor)
           /\ Vis(prev.board, PrevCursor) = "Hidden"
    /\ action \in {"None", "Continue"} => ~SomeMineOpen(board)

\* the open key filled a region next to a Hidden mine and the game goes on
C20_Witness ==
    /\ lastOp = "process_key"
    /\ lastArg = "space"
    /\ action = "Continue"
    /\ Cardinality(Opened) >= 2
    /\ \E i \in Opened : \E j \in Grid :
          Adjacent(i, j) /\ IsMine(board, j) /\ Vis(board, j) = "Hidden"

====
